---- MODULE Spec2Model ----
(***************************************************************************)
(* The staged command orchestrator of the ceph-mgr "neverest" module:      *)
(* CommandsRequest (module.py), the request registry Module.requests, the  *)
(* notification router Module._notify and the /request REST handlers       *)
(* (api.py).                                                               *)
(*                                                                         *)
(* Threads.  API threads run submit_request, Request.delete (sweep),       *)
(* RequestUuid.delete (cancel) and RequestUuid.get; notification threads   *)
(* run Module.notify.  Each thread has a program counter; one action is    *)
(* one access of a handler to a list or an attribute that another thread   *)
(* can read or write: one send_command call, one evaluation of             *)
(* Module.requests, one step of an iteration over the list it gave or over *)
(* a running list, one read of a list, one pop, one append, one            *)
(* assignment.  Code that runs under CommandsRequest.lock excludes the     *)
(* other lock holders only: is_running, is_ready, is_finished and the REST *)
(* handlers read the lists without the lock.                               *)
(*                                                                         *)
(* Lists are objects.  Module.requests names the registry; a handler that  *)
(* evaluated the attribute works on the list it got (len, subscript, pop,  *)
(* append, iteration) also when Request.delete has assigned a new list to  *)
(* Module.requests meanwhile.                                              *)
(*                                                                         *)
(* Spec interleaves the steps of the notification threads and of the HTTP  *)
(* server serving one request at a time; DeepSpec is Spec with one batch   *)
(* of up to three stages.  FaultSpec adds send_command raising and         *)
(* notifications of any type and tag.  ApiSpec interleaves the handlers of *)
(* several API threads (a threaded HTTP server) with each other and with   *)
(* the notifications.                                                      *)
(***************************************************************************)
EXTENDS Integers, Sequences, FiniteSets, TLC

\* ---------------------------------------------------------------- bounds
\* Batches and commands submitted over a whole run of Spec.
MaxBatches == 2
MaxCmds == 2
\* The same for DeepSpec, FaultSpec and ApiSpec.
DeepBatches == 1
DeepCmds == 4
FaultBatches == 1
FaultCmds == 3
ApiBatches == 1
ApiCmds == 1
NumIds == 2
NumApi == 2
NumNotify == 2
\* The notification threads the control plane uses in FaultSpec and ApiSpec.
FewNotify == 1

Larger(x, y) == IF x > y THEN x ELSE y

Obj == 1..Larger(Larger(MaxBatches, DeepBatches), Larger(FaultBatches, ApiBatches))
Uuids == 1..NumIds
Api == 1..NumApi
Notif == (NumApi + 1)..(NumApi + NumNotify)
FewNotif == (NumApi + 1)..(NumApi + FewNotify)

\* The stage layouts a submission may have: one entry per stage, the number
\* of commands in it.
Shapes == {<< >>, <<1>>, <<2>>, <<1, 1>>, <<1, 2>>, <<2, 1, 1>>}

NoObj == 0
NoThread == 0
NoCmd == <<0, 0, 0>>
NoInv == [tag |-> <<0, 0>>, command |-> NoCmd]
NoTag == <<0, 0>>
\* CommandResult(tag) starts with r = 0 (mgr_module.CommandResult).
InitialR == 0
\* What a handler returned, <<kind, value>>: "uuid" an id (submit_request),
\* "raised" an exception out of submit_request, "bool" 1/0 for True/False,
\* "count" a number, "snapshot" the dict in asnap, "unknown" the error dict
\* for an unknown uuid, "error" the error dict of the catch decorator.
NoRet == <<"none", 0>>
\* No dict returned by RequestUuid.get.
NoSnap == [uuid |-> 0, running |-> << >>, finished |-> << >>, waiting |-> << >>,
           failed |-> << >>, is_waiting |-> FALSE, is_finished |-> FALSE,
           has_failed |-> FALSE]

\* List objects.  A thread refers to no list, to the list Module.requests
\* names, or to a list that Module.requests named when the thread took it
\* and names no more (an orphan); there are no more orphans than threads.
Orphans == 1..(NumApi + NumNotify)
NoList == 0
TheRegistry == NumApi + NumNotify + 1

VARIABLES
    requests,   \* Module.requests: the registry, a list of batch objects
    orphan,     \* the former registry lists that a thread still refers to
    created,    \* number of CommandsRequest objects constructed so far
    shape,      \* shape[o]: the stage layout object o was submitted with
    uuid,       \* CommandsRequest.uuid = str(id(self))
    running,    \* CommandsRequest.running: list of invocations (CommandResult)
    waiting,    \* CommandsRequest.waiting: list of not yet dispatched stages
    finished,   \* CommandsRequest.finished
    failed,     \* CommandsRequest.failed
    lock,       \* CommandsRequest.lock: the thread holding it, or NoThread
    inflight,   \* control plane: invocations sent and not yet completed
    rcode,      \* CommandResult.r of the invocation of each command
    sends,      \* how many times each command was handed to send_command
    threw,      \* the commands whose send_command call raised
    apc, aobj, ares, anum, anew, aret,   \* API threads: position and locals
    asnap,      \* the dict RequestUuid.get builds
    aarg,       \* the argument of the handler: the uuid of RequestUuid.get and
                \* RequestUuid.delete, the request (its stage layout) of
                \* submit_request until the constructor takes it
    alist,      \* the list an API thread took (append target, list iterated)
    aidx,       \* the index of its iteration or loop, counted from 0
    npc, ntag, nreq, nx, nok, nfound, ncmds, nres,  \* notification threads
    nlist,      \* the list the filter of _notify iterates
    nidx,       \* the index of that iteration, counted from 0
    nrun,       \* the index of is_running's iteration over running
    nacc,       \* the batches the filter has selected so far
    \* History, read by no action:
    cancelled,  \* the objects RequestUuid.delete removed from the registry
    apre,       \* the registry as the running sweep found it
    nfor,       \* the command whose completion a notification reports
    nlate       \* its batch had been cancelled when the notification came

vars == <<requests, orphan, created, shape, uuid, running, waiting, finished,
          failed, lock, inflight, rcode, sends, threw, apc, aobj, ares, anum,
          anew, aret, asnap, aarg, alist, aidx, npc, ntag, nreq, nx, nok,
          nfound, ncmds, nres, nlist, nidx, nrun, nacc, cancelled, apre, nfor,
          nlate>>

batchVars == <<running, waiting, finished, failed, lock>>
apiVars == <<apc, aobj, ares, anum, anew, aret, asnap, aarg, alist, aidx, apre>>
notifVars == <<npc, ntag, nreq, nx, nok, nfound, ncmds, nres, nlist, nidx,
               nrun, nacc, nfor, nlate>>
planeVars == <<inflight, rcode, sends, threw>>
objVars == <<created, shape, uuid>>

\* ------------------------------------------------------- pure operators
\* The commands of object o, stage by stage, as handed to submit_request.
\* A command is identified by <<object, stage, position>>.
StagesOf(o, sh) ==
    [s \in 1..Len(sh) |-> [i \in 1..sh[s] |-> <<o, s, i>>]]

Commands(o, sh) == UNION {{<<o, s, i>> : i \in 1..sh[s]} : s \in 1..Len(sh)}

AllCmds == UNION {Commands(o, sh) : o \in Obj, sh \in Shapes}

StageOf(c) == c[2]

RECURSIVE Sum(_)
Sum(sh) == IF sh = << >> THEN 0 ELSE Head(sh) + Sum(Tail(sh))

RECURSIVE Submitted(_)
\* Number of commands of the first n objects.
Submitted(n) == IF n = 0 THEN 0 ELSE Sum(shape[n]) + Submitted(n - 1)

\* '%s:%d' % (str(uuid), index): the pair determines the string and back.
Tag(u, index) == <<u, index>>

\* run with the tags counted from 1.
run_from1(commands, u) ==
    [i \in 1..Len(commands) |-> [tag |-> Tag(u, i), command |-> commands[i]]]

\* CommandsRequest.run: the CommandResult objects it creates, one per command,
\* tagged by position.
run(commands, u) ==
    [i \in 1..Len(commands) |-> [tag |-> Tag(u, i - 1), command |-> commands[i]]]

SeqSet(s) == {s[i] : i \in 1..Len(s)}

\* The element is read, self.running[index], but not popped.
RemoveNone(s, k) == s

\* list.pop(k): the list without its k-th element.
RemoveAt(s, k) == [i \in 1..(Len(s) - 1) |-> IF i < k THEN s[i] ELSE s[i + 1]]

\* Index of the first invocation of `list` carrying `tag`, 0 when none.
FirstIndex(list, tag) ==
    IF \E i \in 1..Len(list) : list[i].tag = tag
    THEN CHOOSE i \in 1..Len(list) :
            /\ list[i].tag = tag
            /\ \A j \in 1..(i - 1) : list[j].tag # tag
    ELSE 0

is_running(o, tag) == \E i \in 1..Len(running[o]) : running[o][i].tag = tag

\* not self.running and self.waiting.  waiting only loses stages, so the two
\* reads, running first, give what one look at both lists gives at the time
\* of the first read (true) or of the second (false).
is_ready(o) == running[o] = << >> /\ waiting[o] # << >>

is_waiting(o) == waiting[o] # << >>

is_finished(o) == running[o] = << >> /\ waiting[o] = << >>

has_failed(o) == failed[o] # << >>

\* get_state that looks at failed before it looks at is_finished.
get_state_failed_first(o) ==
    IF failed[o] # << >> THEN "failed"
    ELSE IF ~(running[o] = << >> /\ waiting[o] = << >>) THEN "pending"
    ELSE "success"

get_state(o) ==
    IF ~is_finished(o) THEN "pending"
    ELSE IF has_failed(o) THEN "failed"
    ELSE "success"

\* ---------------------------------------------------------- list objects
\* The elements of the list a reference stands for.
ListOf(l) == IF l = TheRegistry THEN requests ELSE orphan[l]

\* A thread other than th refers to list l.
Held(l, th) ==
    \/ \E a \in Api \ {th} : alist[a] = l
    \/ \E t \in Notif \ {th} : nlist[t] = l

\* The orphans once thread th has let go of list l: an orphan no thread
\* refers to is freed.
Dropped(l, th) ==
    IF l \in Orphans /\ ~Held(l, th)
    THEN [orphan EXCEPT ![l] = << >>]
    ELSE orphan

\* ------------------------------------------------------------ object ids
\* An object is alive while a list or a thread's local refers to it; id(self)
\* is distinct among the objects alive and may be reused later.
Live(o) ==
    \/ o \in SeqSet(requests)
    \/ \E l \in Orphans : o \in SeqSet(orphan[l])
    \/ \E a \in Api : aobj[a] = o
    \/ \E a \in Api : o \in SeqSet(anew[a])
    \/ \E t \in Notif : nreq[t] = o
    \/ \E t \in Notif : o \in SeqSet(nacc[t])

UsedIds == {uuid[o] : o \in 1..created}

\* Ids are named in order of first use (renaming ids changes no behaviour).
FreshIds ==
    {u \in Uuids : /\ \A o \in 1..created : Live(o) => uuid[o] # u
                   /\ \A v \in Uuids : v < u => v \in UsedIds}

\* -------------------------------------------------------------- initial
Init ==
    /\ requests = << >>
    /\ orphan = [l \in Orphans |-> << >>]
    /\ created = 0
    /\ shape = [o \in Obj |-> << >>]
    /\ uuid = [o \in Obj |-> 0]
    /\ running = [o \in Obj |-> << >>]
    /\ waiting = [o \in Obj |-> << >>]
    /\ finished = [o \in Obj |-> << >>]
    /\ failed = [o \in Obj |-> << >>]
    /\ lock = [o \in Obj |-> NoThread]
    /\ inflight = {}
    /\ rcode = [c \in AllCmds |-> InitialR]
    /\ sends = [c \in AllCmds |-> 0]
    /\ threw = {}
    /\ apc = [a \in Api |-> "idle"]
    /\ aobj = [a \in Api |-> NoObj]
    /\ ares = [a \in Api |-> << >>]
    /\ anum = [a \in Api |-> 0]
    /\ anew = [a \in Api |-> << >>]
    /\ aret = [a \in Api |-> NoRet]
    /\ asnap = [a \in Api |-> NoSnap]
    /\ aarg = [a \in Api |-> 0]
    /\ alist = [a \in Api |-> NoList]
    /\ aidx = [a \in Api |-> 0]
    /\ npc = [t \in Notif |-> "idle"]
    /\ ntag = [t \in Notif |-> NoTag]
    /\ nreq = [t \in Notif |-> NoObj]
    /\ nx = [t \in Notif |-> NoInv]
    /\ nok = [t \in Notif |-> TRUE]
    /\ nfound = [t \in Notif |-> TRUE]
    /\ ncmds = [t \in Notif |-> << >>]
    /\ nres = [t \in Notif |-> << >>]
    /\ nlist = [t \in Notif |-> NoList]
    /\ nidx = [t \in Notif |-> 0]
    /\ nrun = [t \in Notif |-> 0]
    /\ nacc = [t \in Notif |-> << >>]
    /\ cancelled = {}
    /\ apre = [a \in Api |-> << >>]
    /\ nfor = [t \in Notif |-> NoCmd]
    /\ nlate = [t \in Notif |-> FALSE]

\* ------------------------------------------------ the control plane side
\* instance.send_command(result, ..., tag): one call.
Sent(result) ==
    /\ inflight' = inflight \cup {result}
    /\ sends' = [sends EXCEPT ![result.command] = @ + 1]

\* instance.send_command raises: the command is not sent.
SendThrows(result) ==
    /\ threw' = threw \cup {result.command}
    /\ UNCHANGED <<inflight, sends>>

\* The classes an exception of send_command may belong to.
Excs == {"Exception", "BaseException"}

\* 'except Exception:' in place of the bare 'except:'.
except_Exception(exc) == exc = "Exception"

\* A bare 'except:' clause catches every exception.
bare_except(exc) == TRUE

\* An HTTP request is taken by an API thread that serves none (the threads
\* are interchangeable: the free one of least number takes it).
Takes(a) ==
    /\ apc[a] = "idle"
    /\ \A b \in Api : b < a => apc[b] # "idle"

\* -------------------------------------------------- Module.submit_request
\* The commands of the submissions that API threads 1..n have entered and
\* whose object is not constructed yet.
RECURSIVE Entered(_)
Entered(n) ==
    IF n = 0 THEN 0
    ELSE (IF apc[n] = "submit" THEN Sum(aarg[n]) ELSE 0) + Entered(n - 1)

\* submit_request(request) is called: in
\* self.requests.append(CommandsRequest(request)) the attribute self.requests
\* is evaluated before the argument, the list is taken before the object
\* exists.
Submit(a, sh, cap, cmds) ==
    /\ Takes(a)
    /\ created + Cardinality({b \in Api : apc[b] = "submit"}) < cap
    /\ Submitted(created) + Entered(NumApi) + Sum(sh) <= cmds
    /\ aarg' = [aarg EXCEPT ![a] = sh]
    /\ alist' = [alist EXCEPT ![a] = TheRegistry]
    /\ apc' = [apc EXCEPT ![a] = "submit"]
    /\ UNCHANGED <<requests, orphan, objVars, batchVars, planeVars,
                   aobj, ares, anum, anew, aret, asnap, aidx, apre,
                   notifVars, cancelled>>

\* CommandsRequest(request): the object is allocated, its id() becomes the
\* uuid, and __init__ runs up to the test of len(commands_arrays).
SubmitInit(a) ==
    /\ apc[a] = "submit"
    /\ \E u \in FreshIds :
        LET o == created + 1
            sh == aarg[a]
            stages == StagesOf(o, sh)
        IN  /\ created' = o
            /\ shape' = [shape EXCEPT ![o] = sh]
            /\ uuid' = [uuid EXCEPT ![o] = u]
            /\ running' = [running EXCEPT ![o] = << >>]
            /\ waiting' = [waiting EXCEPT ![o] =
                              IF stages = << >> THEN << >> ELSE Tail(stages)]
            /\ finished' = [finished EXCEPT ![o] = << >>]
            /\ failed' = [failed EXCEPT ![o] = << >>]
            /\ aobj' = [aobj EXCEPT ![a] = o]
            /\ apc' = [apc EXCEPT ![a] =
                          IF Len(stages) = 0 THEN "append"
                          ELSE IF Len(stages[1]) = 0 THEN "ctor_extend"
                          ELSE "ctor_run"]
    /\ aarg' = [aarg EXCEPT ![a] = 0]
    /\ UNCHANGED <<requests, orphan, lock, planeVars, ares, anum, anew, aret,
                   asnap, alist, aidx, apre, notifVars, cancelled>>

\* results = self.run(commands_arrays[0], self.uuid): one turn of run's loop,
\* the send of the next command.
CtorRun(a) ==
    /\ apc[a] = "ctor_run"
    /\ LET o == aobj[a]
           results == run(StagesOf(o, shape[o])[1], uuid[o])
           i == Len(ares[a]) + 1
       IN  /\ Sent(results[i])
           /\ ares' = [ares EXCEPT ![a] = Append(@, results[i])]
           /\ apc' = [apc EXCEPT ![a] =
                         IF i = Len(results) THEN "ctor_extend" ELSE "ctor_run"]
    /\ UNCHANGED <<requests, orphan, objVars, batchVars, rcode, threw,
                   aobj, anum, anew, aret, asnap, aarg, alist, aidx, apre,
                   notifVars, cancelled>>

\* The send of the next command raises: run() is left with its results, the
\* except clause of __init__ logs the traceback and __init__ goes on to
\* self.running.extend(results) with results unbound.
CtorRunThrows(a, exc) ==
    /\ apc[a] = "ctor_run"
    /\ LET o == aobj[a]
           results == run(StagesOf(o, shape[o])[1], uuid[o])
       IN  SendThrows(results[Len(ares[a]) + 1])
    /\ ares' = [ares EXCEPT ![a] = << >>]
    /\ IF bare_except(exc)
       THEN /\ apc' = [apc EXCEPT ![a] = "ctor_unbound"]
            /\ UNCHANGED <<aobj, aret, alist, orphan>>
       ELSE /\ apc' = [apc EXCEPT ![a] = "done"]
            /\ aobj' = [aobj EXCEPT ![a] = NoObj]
            /\ aret' = [aret EXCEPT ![a] = <<"raised", 0>>]
            /\ alist' = [alist EXCEPT ![a] = NoList]
            /\ orphan' = Dropped(alist[a], a)
    /\ UNCHANGED <<requests, objVars, batchVars, rcode,
                   anum, anew, asnap, aarg, aidx, apre, notifVars, cancelled>>

\* self.running.extend(results) with results never assigned: the
\* UnboundLocalError leaves __init__ and submit_request; nothing is appended
\* to the list and the new object is dropped.
CtorUnbound(a) ==
    /\ apc[a] = "ctor_unbound"
    /\ aobj' = [aobj EXCEPT ![a] = NoObj]
    /\ aret' = [aret EXCEPT ![a] = <<"raised", 0>>]
    /\ alist' = [alist EXCEPT ![a] = NoList]
    /\ orphan' = Dropped(alist[a], a)
    /\ apc' = [apc EXCEPT ![a] = "done"]
    /\ UNCHANGED <<requests, objVars, batchVars, planeVars,
                   ares, anum, anew, asnap, aarg, aidx, apre, notifVars, cancelled>>

\* self.running.extend(results)
CtorExtend(a) ==
    /\ apc[a] = "ctor_extend"
    /\ running' = [running EXCEPT ![aobj[a]] = @ \o ares[a]]
    /\ ares' = [ares EXCEPT ![a] = << >>]
    /\ apc' = [apc EXCEPT ![a] = "append"]
    /\ UNCHANGED <<requests, orphan, objVars, waiting, finished, failed,
                   lock, planeVars, aobj, anum, anew, aret, asnap, aarg, alist,
                   aidx, apre, notifVars, cancelled>>

\* <the list taken>.append(<the new object>)
SubmitAppend(a) ==
    /\ apc[a] = "append"
    /\ LET l == alist[a]
       IN  IF l = TheRegistry
           THEN /\ requests' = Append(requests, aobj[a])
                /\ orphan' = orphan
           ELSE /\ requests' = requests
                /\ orphan' = IF Held(l, a)
                             THEN [orphan EXCEPT ![l] = Append(@, aobj[a])]
                             ELSE [orphan EXCEPT ![l] = << >>]
    /\ alist' = [alist EXCEPT ![a] = NoList]
    /\ aobj' = [aobj EXCEPT ![a] = NoObj]
    /\ apc' = [apc EXCEPT ![a] = "submit_ret"]
    /\ UNCHANGED <<objVars, batchVars, planeVars, ares, anum, anew, aret,
                   asnap, aarg, aidx, apre, notifVars, cancelled>>

\* The evaluation of module.instance.requests (self.requests): the thread
\* takes the list the attribute names now, and goes on to the operation on
\* that list.
Evaluates(a, from, to) ==
    /\ apc[a] = from
    /\ alist' = [alist EXCEPT ![a] = TheRegistry]
    /\ apc' = [apc EXCEPT ![a] = to]
    /\ UNCHANGED <<requests, orphan, objVars, batchVars, planeVars,
                   aobj, ares, anum, anew, aret, asnap, aarg, aidx, apre,
                   notifVars, cancelled>>

\* return self.requests[-1].uuid: self.requests is evaluated.
SubmitEval(a) == Evaluates(a, "submit_ret", "submit_last")

\* return self.requests[-1].uuid: the last element of the list taken; an
\* empty list raises IndexError.
SubmitRet(a) ==
    /\ apc[a] = "submit_last"
    /\ LET list == ListOf(alist[a])
       IN  aret' = [aret EXCEPT ![a] =
                       IF list = << >> THEN <<"raised", 0>>
                       ELSE <<"uuid", uuid[list[Len(list)]]>>]
    /\ alist' = [alist EXCEPT ![a] = NoList]
    /\ orphan' = Dropped(alist[a], a)
    /\ apc' = [apc EXCEPT ![a] = "done"]
    /\ UNCHANGED <<requests, objVars, batchVars, planeVars,
                   aobj, ares, anum, anew, asnap, aarg, aidx, apre,
                   notifVars, cancelled>>

\* The handler has returned; the thread takes the next HTTP request.
Return(a) ==
    /\ apc[a] = "done"
    /\ apc' = [apc EXCEPT ![a] = "idle"]
    /\ aret' = [aret EXCEPT ![a] = NoRet]
    /\ asnap' = [asnap EXCEPT ![a] = NoSnap]
    /\ aarg' = [aarg EXCEPT ![a] = 0]
    /\ apre' = [apre EXCEPT ![a] = << >>]
    /\ UNCHANGED <<requests, orphan, objVars, batchVars, planeVars,
                   aobj, ares, anum, anew, alist, aidx, notifVars, cancelled>>

\* ------------------------------------------- RequestUuid.delete (cancel)
\* RequestUuid.delete is called with a uuid: module.instance.requests, the
\* argument of len, is evaluated.
Cancel(a, u) ==
    /\ Takes(a)
    /\ aarg' = [aarg EXCEPT ![a] = u]
    /\ alist' = [alist EXCEPT ![a] = TheRegistry]
    /\ apc' = [apc EXCEPT ![a] = "cancel_len"]
    /\ UNCHANGED <<requests, orphan, objVars, batchVars, planeVars,
                   aobj, ares, anum, anew, aret, asnap, aidx, apre, notifVars,
                   cancelled>>

\* for index in range(len(<the list taken>)): the length is read once,
\* before the loop; with no index to visit, return False.
CancelLen(a) ==
    /\ apc[a] = "cancel_len"
    /\ LET n == Len(ListOf(alist[a]))
       IN  IF n = 0
           THEN /\ aret' = [aret EXCEPT ![a] = <<"bool", 0>>]
                /\ apc' = [apc EXCEPT ![a] = "done"]
                /\ anum' = anum
           ELSE /\ anum' = [anum EXCEPT ![a] = n]
                /\ apc' = [apc EXCEPT ![a] = "cancel_eval"]
                /\ aret' = aret
    /\ alist' = [alist EXCEPT ![a] = NoList]
    /\ orphan' = Dropped(alist[a], a)
    /\ UNCHANGED <<requests, objVars, batchVars, planeVars,
                   aobj, ares, anew, asnap, aarg, aidx, apre, notifVars,
                   cancelled>>

\* if module.instance.requests[index].uuid == uuid: the attribute is
\* evaluated, at each turn of the loop.
CancelEval(a) == Evaluates(a, "cancel_eval", "cancel_test")

\* The test with the comparison turned round.
OtherUuid(o, u) == uuid[o] # u

\* requests[index].uuid == uuid
SameUuid(o, u) == uuid[o] = u

\* if <the list taken>[index].uuid == uuid: an index past the end of the
\* list raises IndexError, which the catch decorator turns into an error
\* dict.
CancelTest(a) ==
    /\ apc[a] = "cancel_test"
    /\ LET list == ListOf(alist[a])
           k == aidx[a] + 1
       IN  IF k > Len(list)
           THEN /\ aret' = [aret EXCEPT ![a] = <<"error", 0>>]
                /\ apc' = [apc EXCEPT ![a] = "done"]
                /\ aidx' = [aidx EXCEPT ![a] = 0]
                /\ anum' = [anum EXCEPT ![a] = 0]
           ELSE IF SameUuid(list[k], aarg[a])
           THEN /\ apc' = [apc EXCEPT ![a] = "cancel_found"]
                /\ UNCHANGED <<aret, aidx, anum>>
           ELSE IF k = anum[a]
           THEN /\ aret' = [aret EXCEPT ![a] = <<"bool", 0>>]
                /\ apc' = [apc EXCEPT ![a] = "done"]
                /\ aidx' = [aidx EXCEPT ![a] = 0]
                /\ anum' = [anum EXCEPT ![a] = 0]
           ELSE /\ aidx' = [aidx EXCEPT ![a] = k]
                /\ apc' = [apc EXCEPT ![a] = "cancel_eval"]
                /\ UNCHANGED <<aret, anum>>
    /\ alist' = [alist EXCEPT ![a] = NoList]
    /\ orphan' = Dropped(alist[a], a)
    /\ UNCHANGED <<requests, objVars, batchVars, planeVars,
                   aobj, ares, anew, asnap, aarg, apre, notifVars,
                   cancelled>>

\* module.instance.requests.pop(index): the attribute is evaluated.
CancelFound(a) == Evaluates(a, "cancel_found", "cancel_pop")

\* <the list taken>.pop(index); return True.  The pop takes whatever is at
\* the index in that list, which is the registry unless the registry was
\* replaced since the evaluation; an index past its end raises IndexError.
CancelPop(a) ==
    /\ apc[a] = "cancel_pop"
    /\ LET l == alist[a]
           list == ListOf(l)
           k == aidx[a] + 1
       IN  IF k > Len(list)
           THEN /\ aret' = [aret EXCEPT ![a] = <<"error", 0>>]
                /\ orphan' = Dropped(l, a)
                /\ UNCHANGED <<requests, cancelled>>
           ELSE /\ IF l = TheRegistry
                   THEN /\ requests' = RemoveAt(requests, k)
                        /\ orphan' = orphan
                   ELSE /\ requests' = requests
                        /\ orphan' = IF Held(l, a)
                                     THEN [orphan EXCEPT ![l] = RemoveAt(@, k)]
                                     ELSE [orphan EXCEPT ![l] = << >>]
                /\ cancelled' = cancelled \cup {list[k]}
                /\ aret' = [aret EXCEPT ![a] = <<"bool", 1>>]
    /\ alist' = [alist EXCEPT ![a] = NoList]
    /\ aidx' = [aidx EXCEPT ![a] = 0]
    /\ anum' = [anum EXCEPT ![a] = 0]
    /\ apc' = [apc EXCEPT ![a] = "done"]
    /\ UNCHANGED <<objVars, batchVars, planeVars,
                   aobj, ares, anew, asnap, aarg, apre, notifVars>>

\* ------------------------------------------------------ RequestUuid.get
\* map(lambda x: x.command, list) over a list of CommandResult objects.
CommandsOf(list) == [i \in 1..Len(list) |-> list[i].command]

\* RequestUuid.get is called with a uuid: module.instance.requests, the
\* argument of filter, is evaluated.
Get(a, u) ==
    /\ Takes(a)
    /\ aarg' = [aarg EXCEPT ![a] = u]
    /\ alist' = [alist EXCEPT ![a] = TheRegistry]
    /\ apc' = [apc EXCEPT ![a] = "get_filter"]
    /\ UNCHANGED <<requests, orphan, objVars, batchVars, planeVars,
                   aobj, ares, anum, anew, aret, asnap, aidx, apre,
                   notifVars, cancelled>>

\* request = filter(lambda x: x.uuid == uuid, <the list taken>): one step of
\* the iteration over the list (uuid is never reassigned); at its end
\* 'if len(request) != 1' and 'request = request[0]'.
GetFilter(a) ==
    /\ apc[a] = "get_filter"
    /\ LET l == alist[a]
           list == ListOf(l)
           k == aidx[a] + 1
       IN  IF k <= Len(list)
           THEN /\ anew' = [anew EXCEPT ![a] =
                               IF SameUuid(list[k], aarg[a])
                               THEN Append(@, list[k]) ELSE @]
                /\ aidx' = [aidx EXCEPT ![a] = k]
                /\ UNCHANGED <<orphan, alist, apc, aret, aobj>>
           ELSE /\ anew' = [anew EXCEPT ![a] = << >>]
                /\ aidx' = [aidx EXCEPT ![a] = 0]
                /\ alist' = [alist EXCEPT ![a] = NoList]
                /\ orphan' = Dropped(l, a)
                /\ IF Len(anew[a]) # 1
                   THEN /\ aret' = [aret EXCEPT ![a] = <<"unknown", aarg[a]>>]
                        /\ apc' = [apc EXCEPT ![a] = "done"]
                        /\ aobj' = aobj
                   ELSE /\ aobj' = [aobj EXCEPT ![a] = anew[a][1]]
                        /\ apc' = [apc EXCEPT ![a] = "get_running"]
                        /\ aret' = aret
    /\ UNCHANGED <<requests, objVars, batchVars, planeVars,
                   ares, anum, asnap, aarg, apre, notifVars, cancelled>>

\* 'uuid': request.uuid, 'running': map(lambda x: x.command, request.running):
\* one step of the map's iteration over running, which finish() may shorten
\* meanwhile.
GetRunning(a) ==
    /\ apc[a] = "get_running"
    /\ LET o == aobj[a]
           k == aidx[a] + 1
           snap == IF k = 1 THEN [NoSnap EXCEPT !.uuid = uuid[o]] ELSE asnap[a]
       IN  IF k <= Len(running[o])
           THEN /\ asnap' = [asnap EXCEPT ![a] =
                               [snap EXCEPT !.running =
                                   Append(@, running[o][k].command)]]
                /\ aidx' = [aidx EXCEPT ![a] = k]
                /\ apc' = apc
           ELSE /\ asnap' = [asnap EXCEPT ![a] = snap]
                /\ aidx' = [aidx EXCEPT ![a] = 0]
                /\ apc' = [apc EXCEPT ![a] = "get_finished"]
    /\ UNCHANGED <<requests, orphan, objVars, batchVars, planeVars,
                   aobj, ares, anum, anew, aret, aarg, alist, apre,
                   notifVars, cancelled>>

\* 'finished': map(lambda x: x.command, request.finished).  finished only
\* grows, at its end: the map returns what the list holds when it ends.
GetFinished(a) ==
    /\ apc[a] = "get_finished"
    /\ asnap' = [asnap EXCEPT ![a].finished = CommandsOf(finished[aobj[a]])]
    /\ apc' = [apc EXCEPT ![a] = "get_waiting"]
    /\ UNCHANGED <<requests, orphan, objVars, batchVars, planeVars,
                   aobj, ares, anum, anew, aret, aarg, alist, aidx, apre,
                   notifVars, cancelled>>

\* 'waiting': map(lambda x: x.command, request.waiting).  request.waiting
\* holds stages (lists of commands), not CommandResult objects: x.command
\* raises AttributeError on the first stage there is, and the catch
\* decorator turns the exception into an error dict.
GetWaiting(a) ==
    /\ apc[a] = "get_waiting"
    /\ IF waiting[aobj[a]] # << >>
       THEN /\ aret' = [aret EXCEPT ![a] = <<"error", 0>>]
            /\ asnap' = [asnap EXCEPT ![a] = NoSnap]
            /\ aobj' = [aobj EXCEPT ![a] = NoObj]
            /\ apc' = [apc EXCEPT ![a] = "done"]
       ELSE /\ apc' = [apc EXCEPT ![a] = "get_failed"]
            /\ UNCHANGED <<aret, asnap, aobj>>
    /\ UNCHANGED <<requests, orphan, objVars, batchVars, planeVars,
                   ares, anum, anew, aarg, alist, aidx, apre,
                   notifVars, cancelled>>

\* 'failed': map(lambda x: x.command, request.failed); failed only grows.
GetFailed(a) ==
    /\ apc[a] = "get_failed"
    /\ asnap' = [asnap EXCEPT ![a].failed = CommandsOf(failed[aobj[a]])]
    /\ apc' = [apc EXCEPT ![a] = "get_is_finished"]
    /\ UNCHANGED <<requests, orphan, objVars, batchVars, planeVars,
                   aobj, ares, anum, anew, aret, aarg, alist, aidx, apre,
                   notifVars, cancelled>>

\* 'is_waiting': request.is_waiting(), 'is_finished': request.is_finished().
\* The map over waiting has returned, so waiting is empty and stays empty;
\* the one list read here that can still change is running.
GetIsFinished(a) ==
    /\ apc[a] = "get_is_finished"
    /\ asnap' = [asnap EXCEPT ![a].is_waiting = is_waiting(aobj[a]),
                              ![a].is_finished = is_finished(aobj[a])]
    /\ apc' = [apc EXCEPT ![a] = "get_has_failed"]
    /\ UNCHANGED <<requests, orphan, objVars, batchVars, planeVars,
                   aobj, ares, anum, anew, aret, aarg, alist, aidx, apre,
                   notifVars, cancelled>>

\* 'has_failed': request.has_failed(), and the dict is returned.
GetHasFailed(a) ==
    /\ apc[a] = "get_has_failed"
    /\ asnap' = [asnap EXCEPT ![a].has_failed = has_failed(aobj[a])]
    /\ aret' = [aret EXCEPT ![a] = <<"snapshot", 0>>]
    /\ aobj' = [aobj EXCEPT ![a] = NoObj]
    /\ apc' = [apc EXCEPT ![a] = "done"]
    /\ UNCHANGED <<requests, orphan, objVars, batchVars, planeVars,
                   ares, anum, anew, aarg, alist, aidx, apre,
                   notifVars, cancelled>>

\* ------------------------------------------------ Request.delete (sweep)
\* Request.delete is called: module.instance.requests, the argument of len,
\* is evaluated.
Sweep(a) ==
    /\ Takes(a)
    /\ alist' = [alist EXCEPT ![a] = TheRegistry]
    /\ apre' = [apre EXCEPT ![a] = requests]
    /\ apc' = [apc EXCEPT ![a] = "sweep_len"]
    /\ UNCHANGED <<requests, orphan, objVars, batchVars, planeVars,
                   aobj, ares, anum, anew, aret, asnap, aarg, aidx,
                   notifVars, cancelled>>

\* num_requests = len(<the list taken>)
SweepLen(a) ==
    /\ apc[a] = "sweep_len"
    /\ anum' = [anum EXCEPT ![a] = Len(ListOf(alist[a]))]
    /\ alist' = [alist EXCEPT ![a] = NoList]
    /\ orphan' = Dropped(alist[a], a)
    /\ apc' = [apc EXCEPT ![a] = "sweep_eval"]
    /\ UNCHANGED <<requests, objVars, batchVars, planeVars,
                   aobj, ares, anew, aret, asnap, aarg, aidx, apre,
                   notifVars, cancelled>>

\* filter(lambda x: not x.is_finished(), module.instance.requests): the
\* attribute, the argument of filter, is evaluated.
SweepEval(a) == Evaluates(a, "sweep_eval", "sweep_filter")

\* filter(..., <the list taken>): one step of the iteration over the list,
\* which fetches the next element, or ends.
SweepFilter(a) ==
    /\ apc[a] = "sweep_filter"
    /\ LET l == alist[a]
           list == ListOf(l)
           k == aidx[a] + 1
       IN  IF k <= Len(list)
           THEN /\ aidx' = [aidx EXCEPT ![a] = k]
                /\ aobj' = [aobj EXCEPT ![a] = list[k]]
                /\ apc' = [apc EXCEPT ![a] = "sweep_running"]
                /\ UNCHANGED <<alist, orphan>>
           ELSE /\ aidx' = [aidx EXCEPT ![a] = 0]
                /\ alist' = [alist EXCEPT ![a] = NoList]
                /\ orphan' = Dropped(l, a)
                /\ apc' = [apc EXCEPT ![a] = "sweep_assign"]
                /\ aobj' = aobj
    /\ UNCHANGED <<requests, objVars, batchVars, planeVars,
                   ares, anum, anew, aret, asnap, aarg, apre, notifVars,
                   cancelled>>

\* The first read of x.is_finished() on the element fetched, 'not
\* self.running': a batch with invocations in running is kept.
SweepRunning(a) ==
    /\ apc[a] = "sweep_running"
    /\ IF running[aobj[a]] # << >>
       THEN /\ anew' = [anew EXCEPT ![a] = Append(@, aobj[a])]
            /\ aobj' = [aobj EXCEPT ![a] = NoObj]
            /\ apc' = [apc EXCEPT ![a] = "sweep_filter"]
       ELSE /\ apc' = [apc EXCEPT ![a] = "sweep_waiting"]
            /\ UNCHANGED <<anew, aobj>>
    /\ UNCHANGED <<requests, orphan, objVars, batchVars, planeVars,
                   ares, anum, aret, asnap, aarg, alist, aidx, apre,
                   notifVars, cancelled>>

\* The second read of is_finished() as 'self.waiting': a batch with nothing
\* waiting is kept.
Waits_not(o) == waiting[o] = << >>

\* The second read of is_finished(), reached with running found empty:
\* 'not self.waiting'.  The lambda keeps the batch when a stage waits.
Waits(o) == waiting[o] # << >>

SweepWaiting(a) ==
    /\ apc[a] = "sweep_waiting"
    /\ anew' = [anew EXCEPT ![a] = IF Waits(aobj[a]) THEN Append(@, aobj[a]) ELSE @]
    /\ aobj' = [aobj EXCEPT ![a] = NoObj]
    /\ apc' = [apc EXCEPT ![a] = "sweep_filter"]
    /\ UNCHANGED <<requests, orphan, objVars, batchVars, planeVars,
                   ares, anum, aret, asnap, aarg, alist, aidx, apre,
                   notifVars, cancelled>>

\* The least orphan name no thread refers to.
FreeOrphan ==
    CHOOSE l \in Orphans :
        /\ ~Held(l, NoThread)
        /\ \A m \in Orphans : m < l => Held(m, NoThread)

\* module.instance.requests = <the filtered list>.  The list that was the
\* registry lives on, as an orphan, while a thread refers to it.
SweepAssign(a) ==
    /\ apc[a] = "sweep_assign"
    /\ requests' = anew[a]
    /\ IF Held(TheRegistry, NoThread)
       THEN LET l == FreeOrphan
            IN  /\ orphan' = [orphan EXCEPT ![l] = requests]
                /\ alist' = [b \in Api |->
                                IF alist[b] = TheRegistry THEN l ELSE alist[b]]
                /\ nlist' = [t \in Notif |->
                                IF nlist[t] = TheRegistry THEN l ELSE nlist[t]]
       ELSE UNCHANGED <<orphan, alist, nlist>>
    /\ anew' = [anew EXCEPT ![a] = << >>]
    /\ apc' = [apc EXCEPT ![a] = "sweep_ret"]
    /\ UNCHANGED <<objVars, batchVars, planeVars, aobj, ares, anum, aret,
                   asnap, aarg, aidx, apre, npc, ntag, nreq, nx, nok, nfound,
                   ncmds, nres, nidx, nrun, nacc, nfor, nlate, cancelled>>

\* return num_requests - len(module.instance.requests): the attribute is
\* evaluated.
SweepRetEval(a) == Evaluates(a, "sweep_ret", "sweep_ret_len")

\* return num_requests - len(<the list taken>)
SweepRet(a) ==
    /\ apc[a] = "sweep_ret_len"
    /\ aret' = [aret EXCEPT ![a] =
                   <<"count", anum[a] - Len(ListOf(alist[a]))>>]
    /\ alist' = [alist EXCEPT ![a] = NoList]
    /\ orphan' = Dropped(alist[a], a)
    /\ anum' = [anum EXCEPT ![a] = 0]
    /\ apc' = [apc EXCEPT ![a] = "done"]
    /\ UNCHANGED <<requests, objVars, batchVars, planeVars,
                   aobj, ares, anew, asnap, aarg, aidx, apre,
                   notifVars, cancelled>>

\* ---------------------------------------------------------- Module.notify
\* The control plane completes one invocation: it stores the result code in
\* the CommandResult and calls notify("command", tag) on a free thread (the
\* threads are interchangeable: the free one of least number is taken).
Complete(t, inv, r) ==
    /\ npc[t] = "idle"
    /\ \A t2 \in Notif : t2 < t => npc[t2] # "idle"
    /\ inv \in inflight
    /\ inflight' = inflight \ {inv}
    /\ rcode' = [rcode EXCEPT ![inv.command] = r]
    /\ ntag' = [ntag EXCEPT ![t] = inv.tag]
    /\ npc' = [npc EXCEPT ![t] = "notify"]
    /\ nfor' = [nfor EXCEPT ![t] = inv.command]
    /\ nlate' = [nlate EXCEPT ![t] = inv.command[1] \in cancelled]
    /\ UNCHANGED <<requests, orphan, objVars, batchVars, sends, threw, apiVars,
                   nreq, nx, nok, nfound, ncmds, nres, nlist, nidx, nrun, nacc,
                   cancelled>>

\* The notification thread is back in the control plane.
Idle(t) ==
    /\ npc' = [npc EXCEPT ![t] = "idle"]
    /\ ntag' = [ntag EXCEPT ![t] = NoTag]
    /\ nreq' = [nreq EXCEPT ![t] = NoObj]
    /\ nfor' = [nfor EXCEPT ![t] = NoCmd]
    /\ nlate' = [nlate EXCEPT ![t] = FALSE]
    /\ nfound' = [nfound EXCEPT ![t] = TRUE]

\* _notify with notify_type "command": self.requests, the argument of
\* filter, is evaluated.
FilterEval(t) ==
    /\ npc[t] = "notify"
    /\ nlist' = [nlist EXCEPT ![t] = TheRegistry]
    /\ npc' = [npc EXCEPT ![t] = "filter"]
    /\ UNCHANGED <<requests, orphan, objVars, batchVars, planeVars,
                   apiVars, ntag, nreq, nx, nok, nfound, ncmds, nres, nidx,
                   nrun, nacc, nfor, nlate, cancelled>>

\* request = filter(lambda x: x.is_running(tag), <the list taken>): one step
\* of the iteration over the list, which fetches the next element; at its
\* end 'if len(request) != 1: return' and 'request = request[0]'.
Filter(t) ==
    /\ npc[t] = "filter"
    /\ LET l == nlist[t]
           list == ListOf(l)
           k == nidx[t] + 1
       IN  IF k <= Len(list)
           THEN /\ nreq' = [nreq EXCEPT ![t] = list[k]]
                /\ nidx' = [nidx EXCEPT ![t] = k]
                /\ npc' = [npc EXCEPT ![t] = "is_running"]
                /\ UNCHANGED <<orphan, nlist, nacc, ntag, nfor, nlate, nfound>>
           ELSE /\ nidx' = [nidx EXCEPT ![t] = 0]
                /\ nlist' = [nlist EXCEPT ![t] = NoList]
                /\ orphan' = Dropped(l, t)
                /\ nacc' = [nacc EXCEPT ![t] = << >>]
                /\ IF Len(nacc[t]) # 1
                   THEN Idle(t)
                   ELSE /\ nreq' = [nreq EXCEPT ![t] = nacc[t][1]]
                        /\ npc' = [npc EXCEPT ![t] = "finish"]
                        /\ UNCHANGED <<ntag, nfor, nlate, nfound>>
    /\ UNCHANGED <<requests, objVars, batchVars, planeVars,
                   apiVars, nx, nok, ncmds, nres, nrun, cancelled>>

\* x.is_running(tag): one step of 'for result in self.running', with
\* 'if result.tag == tag: return True', and 'return False' at its end.
IsRunning(t) ==
    /\ npc[t] = "is_running"
    /\ LET o == nreq[t]
           k == nrun[t] + 1
       IN  IF k <= Len(running[o]) /\ running[o][k].tag # ntag[t]
           THEN /\ nrun' = [nrun EXCEPT ![t] = k]
                /\ UNCHANGED <<nacc, nreq, npc>>
           ELSE /\ nacc' = [nacc EXCEPT ![t] =
                               IF k <= Len(running[o]) THEN Append(@, o) ELSE @]
                /\ nrun' = [nrun EXCEPT ![t] = 0]
                /\ nreq' = [nreq EXCEPT ![t] = NoObj]
                /\ npc' = [npc EXCEPT ![t] = "filter"]
    /\ UNCHANGED <<requests, orphan, objVars, batchVars, planeVars,
                   apiVars, ntag, nx, nok, nfound, ncmds, nres, nlist, nidx,
                   nfor, nlate, cancelled>>

\* CommandsRequest.finish: take the lock, find the first invocation in
\* running with the tag (running changes under the lock only) and test its
\* result code, 'if self.running[index].r == 0'.  The control plane writes r
\* without the lock.
Finish(t) ==
    /\ npc[t] = "finish"
    /\ lock[nreq[t]] = NoThread
    /\ LET o == nreq[t]
           k == FirstIndex(running[o], ntag[t])
       IN  IF k = 0
           THEN /\ npc' = [npc EXCEPT ![t] = "is_ready"]
                /\ nfound' = [nfound EXCEPT ![t] = FALSE]
                /\ UNCHANGED <<lock, nok>>
           ELSE /\ nok' = [nok EXCEPT ![t] = (rcode[running[o][k].command] = 0)]
                /\ lock' = [lock EXCEPT ![o] = t]
                /\ npc' = [npc EXCEPT ![t] = "finish_pop"]
                /\ nfound' = nfound
    /\ UNCHANGED <<requests, orphan, objVars, running, waiting, finished,
                   failed, planeVars, apiVars, ntag, nreq, nx, ncmds, nres,
                   nlist, nidx, nrun, nacc, nfor, nlate, cancelled>>

\* CommandsRequest.finish: self.running.pop(index), at the index found; the
\* thread holds the lock, so running is as it was at the test.
FinishPop(t) ==
    /\ npc[t] = "finish_pop"
    /\ LET o == nreq[t]
           k == FirstIndex(running[o], ntag[t])
       IN  /\ nx' = [nx EXCEPT ![t] = running[o][k]]
           /\ running' = [running EXCEPT ![o] = RemoveAt(@, k)]
    /\ npc' = [npc EXCEPT ![t] = "finish_append"]
    /\ UNCHANGED <<requests, orphan, objVars, waiting, finished, failed, lock,
                   planeVars, apiVars, ntag, nreq, nok, nfound, ncmds, nres,
                   nlist, nidx, nrun, nacc, nfor, nlate, cancelled>>

\* CommandsRequest.finish: append the popped invocation, release the lock.
FinishAppend(t) ==
    /\ npc[t] = "finish_append"
    /\ LET o == nreq[t]
       IN  /\ IF nok[t]
              THEN /\ finished' = [finished EXCEPT ![o] = Append(@, nx[t])]
                   /\ failed' = failed
              ELSE /\ failed' = [failed EXCEPT ![o] = Append(@, nx[t])]
                   /\ finished' = finished
           /\ lock' = [lock EXCEPT ![o] = NoThread]
    /\ nx' = [nx EXCEPT ![t] = NoInv]
    /\ nok' = [nok EXCEPT ![t] = TRUE]
    /\ nfound' = [nfound EXCEPT ![t] = TRUE]
    /\ npc' = [npc EXCEPT ![t] = "is_ready"]
    /\ UNCHANGED <<requests, orphan, objVars, running, waiting,
                   planeVars, apiVars, ntag, nreq, ncmds, nres, nlist, nidx,
                   nrun, nacc, nfor, nlate, cancelled>>

\* if request.is_ready(): request.next()
IsReady(t) ==
    /\ npc[t] = "is_ready"
    /\ IF is_ready(nreq[t])
       THEN /\ npc' = [npc EXCEPT ![t] = "next"]
            /\ UNCHANGED <<ntag, nreq, nfor, nlate, nfound>>
       ELSE Idle(t)
    /\ UNCHANGED <<requests, orphan, objVars, batchVars, planeVars,
                   apiVars, nx, nok, ncmds, nres, nlist, nidx, nrun, nacc,
                   cancelled>>

\* CommandsRequest.next: take the lock, return if nothing waits, else pop the
\* head of waiting.
NextPop(t) ==
    /\ npc[t] = "next"
    /\ lock[nreq[t]] = NoThread
    /\ LET o == nreq[t]
       IN  IF waiting[o] = << >>
           THEN /\ Idle(t)
                /\ UNCHANGED <<waiting, lock, ncmds>>
           ELSE /\ ncmds' = [ncmds EXCEPT ![t] = Head(waiting[o])]
                /\ waiting' = [waiting EXCEPT ![o] = Tail(@)]
                /\ lock' = [lock EXCEPT ![o] = t]
                /\ npc' = [npc EXCEPT ![t] =
                              IF Len(Head(waiting[o])) = 0 THEN "next_extend"
                              ELSE "next_run"]
                /\ UNCHANGED <<ntag, nreq, nfor, nlate, nfound>>
    /\ UNCHANGED <<requests, orphan, objVars, running, finished, failed,
                   planeVars, apiVars, nx, nok, nres, nlist, nidx, nrun, nacc,
                   cancelled>>

\* CommandsRequest.next: self.run(commands, self.uuid), one turn of run's
\* loop, the send of the next command.
NextRun(t) ==
    /\ npc[t] = "next_run"
    /\ LET results == run(ncmds[t], uuid[nreq[t]])
           i == Len(nres[t]) + 1
       IN  /\ Sent(results[i])
           /\ nres' = [nres EXCEPT ![t] = Append(@, results[i])]
           /\ IF i = Len(results)
              THEN /\ ncmds' = [ncmds EXCEPT ![t] = << >>]
                   /\ npc' = [npc EXCEPT ![t] = "next_extend"]
              ELSE UNCHANGED <<ncmds, npc>>
    /\ UNCHANGED <<requests, orphan, objVars, batchVars, rcode, threw,
                   apiVars, ntag, nreq, nx, nok, nfound, nlist, nidx, nrun,
                   nacc, nfor, nlate, cancelled>>

\* CommandsRequest.next: self.running.extend(...), release the lock.
NextExtend(t) ==
    /\ npc[t] = "next_extend"
    /\ running' = [running EXCEPT ![nreq[t]] = @ \o nres[t]]
    /\ lock' = [lock EXCEPT ![nreq[t]] = NoThread]
    /\ nres' = [nres EXCEPT ![t] = << >>]
    /\ Idle(t)
    /\ UNCHANGED <<requests, orphan, objVars, waiting, finished, failed,
                   planeVars, apiVars, nx, nok, ncmds, nlist, nidx, nrun, nacc,
                   cancelled>>

\* CommandsRequest.next: the send of the next command raises.  run() is left
\* with its results, the with statement releases the lock, the popped stage
\* is in neither waiting nor running, and the exception goes up through
\* _notify to the try of Module.notify.
NextRunThrows(t, exc) ==
    /\ npc[t] = "next_run"
    /\ LET results == run(ncmds[t], uuid[nreq[t]])
       IN  SendThrows(results[Len(nres[t]) + 1])
    /\ lock' = [lock EXCEPT ![nreq[t]] = NoThread]
    /\ ncmds' = [ncmds EXCEPT ![t] = << >>]
    /\ nres' = [nres EXCEPT ![t] = << >>]
    /\ npc' = [npc EXCEPT ![t] = exc]
    /\ UNCHANGED <<requests, orphan, objVars, running, waiting, finished,
                   failed, rcode, apiVars, ntag, nreq, nx, nok, nfound,
                   nlist, nidx, nrun, nacc, nfor, nlate, cancelled>>

\* Module.notify: except: self.log.error(...), and the call returns.  An
\* exception the clause does not catch leaves notify ("raised").
NotifyExcept(t) ==
    /\ npc[t] \in Excs
    /\ IF bare_except(npc[t])
       THEN Idle(t)
       ELSE /\ npc' = [npc EXCEPT ![t] = "raised"]
            /\ UNCHANGED <<ntag, nreq, nfor, nlate, nfound>>
    /\ UNCHANGED <<requests, orphan, objVars, batchVars, planeVars,
                   apiVars, nx, nok, ncmds, nres, nlist, nidx, nrun, nacc,
                   cancelled>>

\* The tags a notification may carry.
Tags == {Tag(u, index) : u \in Uuids, index \in 0..1}

\* Module.notify called with any notify_type and any tag, whether or not an
\* invocation with that tag is in flight: _notify tests the type.
Notify(t, notify_type, tag) ==
    /\ npc[t] = "idle"
    /\ \A t2 \in Notif : t2 < t => npc[t2] # "idle"
    /\ ntag' = [ntag EXCEPT ![t] = tag]
    /\ npc' = [npc EXCEPT ![t] =
                  IF notify_type = "command" THEN "notify" ELSE "unhandled"]
    /\ UNCHANGED <<requests, orphan, objVars, batchVars, planeVars,
                   apiVars, nreq, nx, nok, nfound, ncmds, nres, nlist, nidx,
                   nrun, nacc, nfor, nlate, cancelled>>

\* self.log.debug("Unhandled notification type ..."), and _notify returns.
Unhandled(t) ==
    /\ npc[t] = "unhandled"
    /\ Idle(t)
    /\ UNCHANGED <<requests, orphan, objVars, batchVars, planeVars,
                   apiVars, nx, nok, ncmds, nres, nlist, nidx, nrun, nacc,
                   cancelled>>

\* ------------------------------------------------------- specifications
\* An HTTP request arrives: the first step of its handler.
ApiCall(a, cap, cmds) ==
    \/ \E sh \in Shapes : Submit(a, sh, cap, cmds)
    \/ \E u \in Uuids : Cancel(a, u)
    \/ \E u \in Uuids : Get(a, u)
    \/ Sweep(a)

\* The further steps of the handlers.
ApiStep(a) ==
    \/ SubmitInit(a)
    \/ CtorRun(a)
    \/ CtorExtend(a)
    \/ SubmitAppend(a)
    \/ SubmitEval(a)
    \/ SubmitRet(a)
    \/ CancelLen(a)
    \/ CancelEval(a)
    \/ CancelTest(a)
    \/ CancelFound(a)
    \/ CancelPop(a)
    \/ GetFilter(a)
    \/ GetRunning(a)
    \/ GetFinished(a)
    \/ GetWaiting(a)
    \/ GetFailed(a)
    \/ GetIsFinished(a)
    \/ GetHasFailed(a)
    \/ SweepLen(a)
    \/ SweepEval(a)
    \/ SweepFilter(a)
    \/ SweepRunning(a)
    \/ SweepWaiting(a)
    \/ SweepAssign(a)
    \/ SweepRetEval(a)
    \/ SweepRet(a)
    \/ Return(a)

\* The control plane reports a completion.
NotifCall(t) ==
    \E inv \in inflight, r \in {0, 1} : Complete(t, inv, r)

\* The further steps of Module.notify up to the test of is_ready().
NotifStep(t) ==
    \/ FilterEval(t)
    \/ Filter(t)
    \/ IsRunning(t)
    \/ Finish(t)
    \/ FinishPop(t)
    \/ FinishAppend(t)
    \/ IsReady(t)

\* The steps of request.next(), called when is_ready() was true.
AdvanceStep(t) ==
    \/ NextPop(t)
    \/ NextRun(t)
    \/ NextExtend(t)

\* No other API thread is inside a handler.
OtherApiIdle(a) == \A b \in Api : b # a => apc[b] = "idle"

\* The HTTP server takes one request at a time (app.run without threaded);
\* the control plane calls notify on several threads.  Every step of every
\* handler interleaves with the steps of the other threads.  Two batches of
\* two commands in all.
Next ==
    \/ \E a \in Api : OtherApiIdle(a) /\ ApiCall(a, MaxBatches, MaxCmds)
    \/ \E a \in Api : ApiStep(a)
    \/ \E t \in Notif : NotifCall(t)
    \/ \E t \in Notif : NotifStep(t)
    \/ \E t \in Notif : AdvanceStep(t)

Spec == Init /\ [][Next]_vars

\* As Spec, with one batch of up to four commands (three stages).
DeepNext ==
    \/ \E a \in Api : OtherApiIdle(a) /\ ApiCall(a, DeepBatches, DeepCmds)
    \/ \E a \in Api : ApiStep(a)
    \/ \E t \in Notif : NotifCall(t)
    \/ \E t \in Notif : NotifStep(t)
    \/ \E t \in Notif : AdvanceStep(t)

DeepSpec == Init /\ [][DeepNext]_vars

\* The steps that exist only when send_command may raise and when the
\* control plane may deliver any notification.
ApiFaultStep(a) ==
    \/ \E exc \in Excs : CtorRunThrows(a, exc)
    \/ CtorUnbound(a)

NotifFaultCall(t) ==
    \E ty \in {"command", "osd_map"}, tag \in Tags : Notify(t, ty, tag)

NotifFaultStep(t) ==
    \/ \E exc \in Excs : NextRunThrows(t, exc)
    \/ NotifyExcept(t)
    \/ Unhandled(t)

\* As Spec, with send_command raising and notifications of any type and tag
\* delivered, on one notification thread.
FaultNext ==
    \/ \E a \in Api : OtherApiIdle(a) /\ ApiCall(a, FaultBatches, FaultCmds)
    \/ \E a \in Api : ApiStep(a)
    \/ \E a \in Api : ApiFaultStep(a)
    \/ \E t \in FewNotif : NotifCall(t)
    \/ \E t \in FewNotif : NotifFaultCall(t)
    \/ \E t \in Notif : NotifStep(t)
    \/ \E t \in Notif : AdvanceStep(t)
    \/ \E t \in Notif : NotifFaultStep(t)

FaultSpec == Init /\ [][FaultNext]_vars

\* A threaded HTTP server: the handlers of the API threads interleave step
\* by step with each other and with one notification thread.  The batches
\* have one stage at most, so is_ready() is never true and next() is never
\* called.
ApiNext ==
    \/ \E a \in Api : ApiCall(a, ApiBatches, ApiCmds)
    \/ \E a \in Api : ApiStep(a)
    \/ \E t \in FewNotif : NotifCall(t)
    \/ \E t \in Notif : NotifStep(t)

ApiSpec == Init /\ [][ApiNext]_vars

TypeOK ==
    /\ created \in {0} \cup Obj
    /\ \A i \in 1..Len(requests) : requests[i] \in 1..created

\* ---------------------------------------------------------------- claims
Registered == SeqSet(requests)

\* How often command c occurs in a list of invocations.
Occ(list, c) == Cardinality({i \in 1..Len(list) : list[i].command = c})

\* How often command c occurs in the stages still waiting.
OccWaiting(w, c) ==
    Cardinality({p \in UNION {{<<k, i>> : i \in 1..Len(w[k])} : k \in 1..Len(w)} :
                    w[p[1]][p[2]] = c})

\* Batch o is under construction in submit_request.
Constructing(o) ==
    \E a \in Api :
        /\ aobj[a] = o
        /\ apc[a] \in {"ctor_run", "ctor_unbound", "ctor_extend", "append"}

\* The step is one of API thread a.
ApiMoves(a) == <<apc[a], aidx[a], ares[a]>>' # <<apc[a], aidx[a], ares[a]>>

\* The step is one of notification thread t.
NotifMoves(t) ==
    <<npc[t], nidx[t], nrun[t], nres[t]>>' # <<npc[t], nidx[t], nrun[t], nres[t]>>

AllIdle ==
    /\ \A a \in Api : apc[a] = "idle"
    /\ \A t \in Notif : npc[t] = "idle"

\* C1: within one batch no command of a later stage is sent, or in running,
\* while a command of an earlier stage is still in running.
C1_StageOrder ==
    \A o \in 1..created : \A i \in 1..Len(running[o]) :
        /\ \A j \in 1..Len(running[o]) :
              StageOf(running[o][i].command) = StageOf(running[o][j].command)
        /\ \A c \in Commands(o, shape[o]) :
              sends[c] > 0 => StageOf(c) <= StageOf(running[o][i].command)

\* C2: in every state another thread can observe, each command of a
\* registered batch is in exactly one of running, finished, failed and the
\* waiting stages.
C2_Partition ==
    \A o \in Registered : \A c \in Commands(o, shape[o]) :
        Occ(running[o], c) + Occ(finished[o], c) + Occ(failed[o], c)
            + OccWaiting(waiting[o], c) = 1

\* C3: once is_finished() is true of a registered batch it stays true.
C3_FinishedStable ==
    [][\A o \in Obj : (o \in Registered /\ is_finished(o)) => is_finished(o)']_vars

\* C4 (as a final result): when every dispatched command has had its one
\* completion delivered and every handler has returned, no registered batch
\* is still pending.
C4_NoBatchLeftPending ==
    (AllIdle /\ inflight = {}) => \A o \in Registered : is_finished(o)

\* C5: get_state() is pending, success or failed exactly as running, waiting
\* and failed say.
C5_State ==
    \A o \in 1..created :
        /\ get_state(o) \in {"pending", "success", "failed"}
        /\ get_state(o) = "pending" <=> (running[o] # << >> \/ waiting[o] # << >>)
        /\ get_state(o) = "success" <=>
              (running[o] = << >> /\ waiting[o] = << >> /\ failed[o] = << >>)
        /\ get_state(o) = "failed" <=>
              (running[o] = << >> /\ waiting[o] = << >> /\ failed[o] # << >>)

C5_Witness ==
    \E o \in Registered :
        /\ get_state(o) = "failed"
        /\ finished[o] # << >>

\* C6: a failed completion does not stop the batch.  The invocation that
\* finish() moves while its result code is not 0 goes to failed; the router
\* then advances exactly when running is empty and a stage waits, whatever
\* the outcome was, and next() sends the head of waiting command by command
\* and puts all of it in running; and once every completion has been
\* delivered and handled, a finished batch one of whose commands completed
\* with a result code other than 0 is in state failed.
C6_FailureDoesNotStop ==
    [][/\ \A t \in Notif :
            LET o == nreq[t]
            IN  /\ (npc[t] = "finish_append" /\ NotifMoves(t)
                        /\ rcode[nx[t].command] # 0) =>
                    /\ failed'[o] = failed[o] \o <<nx[t]>>
                    /\ finished'[o] = finished[o]
                /\ (npc[t] = "is_ready" /\ npc'[t] # "is_ready") =>
                    (npc'[t] = "next" <=> (running[o] = << >> /\ waiting[o] # << >>))
                /\ (npc[t] = "next" /\ npc'[t] \in {"next_run", "next_extend"}) =>
                    /\ ncmds'[t] = waiting[o][1]
                    /\ waiting'[o] = [i \in 1..(Len(waiting[o]) - 1) |-> waiting[o][i + 1]]
                /\ (npc[t] = "next_run" /\ NotifMoves(t)) =>
                    LET i == Len(nres[t]) + 1
                    IN  /\ sends'[ncmds[t][i]] = sends[ncmds[t][i]] + 1
                        /\ ncmds[t][i] \in {inv.command : inv \in inflight'}
                        /\ Len(nres'[t]) = i
                        /\ nres'[t][i].command = ncmds[t][i]
                        /\ npc'[t] = (IF i = Len(ncmds[t]) THEN "next_extend"
                                      ELSE "next_run")
                /\ (npc[t] = "next_extend" /\ NotifMoves(t)) =>
                    running'[o] = running[o] \o nres[t]
       /\ (AllIdle /\ inflight = {}) =>
            \A o \in Registered :
                (/\ running[o] = << >> /\ waiting[o] = << >>
                 /\ \E c \in Commands(o, shape[o]) : rcode[c] # 0) =>
                    failed[o] # << >>]_vars

\* The batch o as submit_request(stages) is said to leave it: the first
\* stage in running, one invocation per command, tagged '<id>:0' ..
\* '<id>:k-1' in order, the later stages waiting in order, nothing finished
\* or failed, one send per command of the first stage and none for the
\* later ones.
AsSubmitted(o, run_, wait_, fin_, fail_, sends_) ==
    LET sh == shape[o]
        first == IF sh = << >> THEN 0 ELSE sh[1]
    IN  /\ run_ = [i \in 1..first |->
                      [tag |-> <<uuid[o], i - 1>>, command |-> <<o, 1, i>>]]
        /\ wait_ = [s \in 1..(Len(sh) - 1) |->
                       [i \in 1..sh[s + 1] |-> <<o, s + 1, i>>]]
        /\ fin_ = << >> /\ fail_ = << >>
        /\ \A cmd \in Commands(o, sh) :
              sends_[cmd] = (IF cmd[2] = 1 THEN 1 ELSE 0)

\* C7, as claimed: immediately after submit_request has returned (no send
\* throwing) the new batch is registered under the returned id with the
\* first stage in running, the later stages waiting, nothing finished or
\* failed, and one send per command of the first stage only.
C7_StateAtReturn ==
    [][\A a \in Api :
        (apc[a] = "submit_last" /\ apc'[a] = "done") =>
            /\ aret'[a] = <<"uuid", uuid[created]>>
            /\ created \in SeqSet(requests')
            /\ AsSubmitted(created, running'[created], waiting'[created],
                            finished'[created], failed'[created], sends')]_vars

\* C7, amended: the batch is as claimed at the moment submit_request appends
\* it to the registry, not at the return.  Step by step, with no send
\* throwing: the constructor leaves the later stages waiting in order and
\* nothing finished or failed; it sends the commands of the first stage once
\* each, in order, tagged '<id>:0' .. '<id>:k-1', and nothing else; it puts
\* exactly these invocations in running; the batch, in that state, is then
\* registered, once, under an id no other registered batch has; and the call
\* returns that id, the batch being the last entry of the registry.  An
\* empty submission sends nothing and is registered finished, in state
\* success.
C7_SubmitResult ==
    [][\A a \in Api :
        ApiMoves(a) =>
        LET o == aobj[a]
        IN  /\ apc[a] = "submit" =>
                LET n == aobj'[a]
                    sh == shape'[n]
                IN  /\ sh = aarg[a]
                    /\ n \notin Registered
                    /\ running'[n] = << >>
                    /\ finished'[n] = << >> /\ failed'[n] = << >>
                    /\ waiting'[n] = [s \in 1..(Len(sh) - 1) |->
                                         [i \in 1..sh[s + 1] |-> <<n, s + 1, i>>]]
                    /\ sends' = sends
                    /\ \A c \in Commands(n, sh) : sends[c] = 0
                    /\ sh = << >> => apc'[a] = "append"
            /\ apc[a] = "ctor_run" =>
                LET i == Len(ares[a]) + 1
                    inv == [tag |-> <<uuid[o], i - 1>>, command |-> <<o, 1, i>>]
                IN  /\ i <= shape[o][1]
                    /\ ares'[a] = Append(ares[a], inv)
                    /\ inv \in inflight'
                    /\ sends' = [sends EXCEPT ![inv.command] = 1]
                    /\ apc'[a] = (IF i = shape[o][1] THEN "ctor_extend"
                                  ELSE "ctor_run")
            /\ apc[a] = "ctor_extend" =>
                /\ running[o] = << >>
                /\ Len(ares[a]) = shape[o][1]
                /\ running'[o] = ares[a]
                /\ waiting' = waiting /\ finished' = finished /\ failed' = failed
                /\ sends' = sends
            /\ apc[a] = "append" =>
                /\ requests' = Append(requests, o)
                /\ o \notin Registered
                /\ \A r \in Registered : uuid[r] # uuid[o]
                /\ AsSubmitted(o, running'[o], waiting'[o], finished'[o],
                                failed'[o], sends')
                /\ shape[o] = << >> =>
                      \A m \in Obj : m = o => (get_state(m))' = "success"
            /\ apc[a] = "submit_last" =>
                /\ alist[a] = TheRegistry
                /\ requests # << >>
                /\ requests[Len(requests)] = created
                /\ aret'[a] = <<"uuid", uuid[created]>>
                /\ requests' = requests]_vars

\* A submission of one stage of two commands has returned the id of its
\* batch, the second one registered, with both invocations in running in
\* the order of the commands.
C7_Witness ==
    \E a \in Api :
        /\ created \in Registered /\ Len(requests) = 2
        /\ apc[a] = "done" /\ aret[a] = <<"uuid", uuid[created]>>
        /\ Len(running[created]) = 2 /\ waiting[created] = << >>
        /\ running[created][2].tag = <<uuid[created], 1>>

\* C8: finish(tag) with no invocation of that tag in running returns False
\* and changes none of the four lists; otherwise it returns True and moves
\* the first invocation with that tag, and only it, out of running, into
\* finished when its result code is 0 and into failed otherwise.
C8_FinishFrame ==
    [][\A t \in Notif :
        LET o == nreq[t]
            hit == {i \in 1..Len(running[o]) : running[o][i].tag = ntag[t]}
            listsSame == /\ running' = running /\ waiting' = waiting
                         /\ finished' = finished /\ failed' = failed
        IN  /\ (npc[t] = "finish" /\ npc'[t] # "finish" /\ hit = {}) =>
                /\ nfound'[t] = FALSE
                /\ npc'[t] = "is_ready"
                /\ listsSame
            /\ (npc[t] = "finish" /\ npc'[t] # "finish" /\ hit # {}) =>
                /\ npc'[t] = "finish_pop"
                /\ listsSame
            /\ (npc[t] = "finish_pop" /\ npc'[t] # "finish_pop") =>
                LET k == CHOOSE i \in hit : \A j \in hit : i <= j
                IN  /\ npc'[t] = "finish_append"
                    /\ nx'[t] = running[o][k]
                    /\ Len(running'[o]) = Len(running[o]) - 1
                    /\ \A i \in 1..Len(running'[o]) :
                          running'[o][i] = running[o][IF i < k THEN i ELSE i + 1]
                    /\ waiting'[o] = waiting[o]
                    /\ finished'[o] = finished[o] /\ failed'[o] = failed[o]
            /\ (npc[t] = "finish_append" /\ npc'[t] # "finish_append") =>
                /\ nfound'[t] = TRUE
                /\ running'[o] = running[o] /\ waiting'[o] = waiting[o]
                /\ IF rcode[nx[t].command] = 0
                   THEN /\ finished'[o] = finished[o] \o <<nx[t]>>
                        /\ failed'[o] = failed[o]
                   ELSE /\ failed'[o] = failed[o] \o <<nx[t]>>
                        /\ finished'[o] = finished[o]
                /\ \A o2 \in Obj \ {o} :
                      /\ finished'[o2] = finished[o2]
                      /\ failed'[o2] = failed[o2]]_vars

\* C9: a completion delivered after its batch was cancelled is claimed by
\* no registered batch: the router selects no batch for it and the
\* notification ends at the filter.
C9_StaleCompletionDropped ==
    \A t \in Notif :
        nlate[t] => (npc[t] \in {"idle", "notify", "filter", "is_running"} /\ nacc[t] = << >>)

\* s is t with some of its elements left out.
RECURSIVE IsSubSeq(_, _)
IsSubSeq(s, t) ==
    IF s = << >> THEN TRUE
    ELSE IF t = << >> THEN FALSE
    ELSE IF Head(s) = Head(t) THEN IsSubSeq(Tail(s), Tail(t))
    ELSE IsSubSeq(s, Tail(t))

\* C10: what the sweep does, step by step.  It visits the registry in order;
\* a batch is dropped exactly when is_finished() is true of it, that is when
\* its running is found empty and then its waiting is found empty, and is
\* kept otherwise; the list of the batches kept, in their order, becomes the
\* registry, and the number returned is the number of batches removed.
C10_Sweep ==
    [][\A a \in Api :
        ApiMoves(a) =>
        LET k == aidx[a] + 1
        IN  /\ apc[a] = "sweep_len" =>
                /\ requests = apre[a]
                /\ anum'[a] = Len(requests)
            /\ (apc[a] = "sweep_filter" /\ apc'[a] # "sweep_assign") =>
                /\ requests = apre[a]
                /\ k <= Len(requests)
                /\ aobj'[a] = requests[k]
                /\ anew'[a] = anew[a]
                /\ apc'[a] = "sweep_running"
            /\ apc[a] = "sweep_running" =>
                /\ aobj[a] = requests[aidx[a]]
                /\ IF running[aobj[a]] # << >>
                   THEN /\ anew'[a] = Append(anew[a], aobj[a])
                        /\ apc'[a] = "sweep_filter"
                   ELSE /\ anew'[a] = anew[a]
                        /\ apc'[a] = "sweep_waiting"
            /\ apc[a] = "sweep_waiting" =>
                /\ aobj[a] = requests[aidx[a]]
                /\ anew'[a] = (IF waiting[aobj[a]] # << >>
                               THEN Append(anew[a], aobj[a]) ELSE anew[a])
            /\ (apc[a] = "sweep_filter" /\ apc'[a] = "sweep_assign") =>
                /\ k = Len(apre[a]) + 1
                /\ anew'[a] = anew[a]
            /\ apc[a] = "sweep_assign" =>
                /\ requests = apre[a]
                /\ requests' = anew[a]
                /\ IsSubSeq(requests', requests)
            /\ apc[a] = "sweep_ret_len" =>
                aret'[a] = <<"count", Len(apre[a]) - Len(requests)>>]_vars

\* A registry of a finished batch and a pending one was swept: the sweep
\* returned 1 and the pending batch is the registry.
C10_Witness ==
    \E a \in Api :
        /\ apc[a] = "done" /\ aret[a] = <<"count", 1>>
        /\ Len(apre[a]) = 2
        /\ requests = <<apre[a][2]>>
        /\ running[apre[a][2]] # << >>
        /\ running[apre[a][1]] = << >> /\ waiting[apre[a][1]] = << >>

\* Every invocation the program or the control plane still holds.
AllInvs ==
    inflight \cup UNION {SeqSet(running[o]) \cup SeqSet(finished[o])
                            \cup SeqSet(failed[o]) : o \in 1..created}

\* C11: tags are globally unique: no two invocations of different commands
\* ever carry the same tag.
C11_TagsUnique ==
    \A inv1 \in AllInvs : \A inv2 \in AllInvs :
        inv1.tag = inv2.tag => inv1.command = inv2.command

\* The commands of the stages still waiting.
WaitingCmds(w) == UNION {SeqSet(w[k]) : k \in 1..Len(w)}

\* C12: Get(id) of a registered batch returns a snapshot, never an error, in
\* every state of the batch; its lists are the commands in running, finished,
\* waiting and failed and its flags are the batch's predicates, as they are
\* when Get returns.
C12_GetSnapshot ==
    [][\A a \in Api :
        (/\ apc[a] \in {"get_filter", "get_waiting", "get_has_failed"}
         /\ apc'[a] = "done") =>
            \A o \in Registered :
                uuid[o] = aarg[a] =>
                    /\ aret'[a][1] = "snapshot"
                    /\ asnap'[a].uuid = uuid[o]
                    /\ asnap'[a].running =
                          [i \in 1..Len(running[o]) |-> running[o][i].command]
                    /\ asnap'[a].finished =
                          [i \in 1..Len(finished[o]) |-> finished[o][i].command]
                    /\ asnap'[a].failed =
                          [i \in 1..Len(failed[o]) |-> failed[o][i].command]
                    /\ SeqSet(asnap'[a].waiting) = WaitingCmds(waiting[o])
                    /\ asnap'[a].is_waiting = (waiting[o] # << >>)
                    /\ asnap'[a].is_finished =
                          (running[o] = << >> /\ waiting[o] = << >>)
                    /\ asnap'[a].has_failed = (failed[o] # << >>)]_vars

\* C13: what Cancel(id) and Get(id) do, step by step.  Cancel pops an entry
\* only when it carries the id, and then it pops that one entry, leaves the
\* others in their order and returns True; it returns False only when no
\* registered batch has the id; Get of an id no registered batch has returns
\* the not-found value.  Neither raises, and apart from the one popped entry
\* the registry and every batch stay as they were.
C13_CancelAndUnknown ==
    [][\A a \in Api :
        ApiMoves(a) =>
        LET u == aarg[a]
            hit == {i \in 1..Len(requests) : uuid[requests[i]] = u}
            k == aidx[a] + 1
            batchesSame == /\ running' = running /\ waiting' = waiting
                           /\ finished' = finished /\ failed' = failed
        IN  /\ apc[a] = "cancel_len" =>
                /\ requests' = requests /\ batchesSame
                /\ apc'[a] = "done" <=> requests = << >>
                /\ apc'[a] = "done" => aret'[a] = <<"bool", 0>>
            /\ apc[a] \in {"cancel_eval", "cancel_found"} =>
                /\ requests' = requests /\ batchesSame
            /\ apc[a] = "cancel_test" =>
                /\ requests' = requests /\ batchesSame
                /\ k <= Len(requests)
                /\ apc'[a] = "cancel_found" <=> k \in hit
                /\ apc'[a] = "done" =>
                      /\ aret'[a] = <<"bool", 0>>
                      /\ hit = {}
            /\ apc[a] = "cancel_pop" =>
                /\ aret'[a] = <<"bool", 1>>
                /\ hit = {k}
                /\ Len(requests') = Len(requests) - 1
                /\ \A i \in 1..Len(requests') :
                      requests'[i] = requests[IF i < k THEN i ELSE i + 1]
                /\ batchesSame
            /\ apc[a] \in {"get_filter", "get_running", "get_finished",
                            "get_waiting", "get_failed", "get_is_finished",
                            "get_has_failed"} =>
                /\ requests' = requests /\ batchesSame
                /\ aret'[a][1] # "raised"
            /\ (apc[a] = "get_filter" /\ apc'[a] # "get_filter") =>
                IF hit = {} THEN /\ apc'[a] = "done"
                                 /\ aret'[a] = <<"unknown", u>>
                ELSE apc'[a] = "get_running" /\ aobj'[a] \in Registered]_vars

\* A pending batch was cancelled out of a registry of two, and the other
\* entry is still registered.
C13_Witness ==
    \E a \in Api :
        /\ apc[a] = "done" /\ aret[a] = <<"bool", 1>>
        /\ Len(requests) = 1
        /\ \E o \in cancelled : running[o] # << >> /\ uuid[o] = aarg[a]

\* C14: no call of notify ends in an exception, whatever the notify_type and
\* the tag and also when dispatching the next stage raises, and a call that
\* has not returned yet can always take its next step.
C14_NotifyReturns ==
    \A t \in Notif :
        /\ npc[t] # "raised"
        /\ npc[t] # "idle" =>
              \/ ENABLED (NotifStep(t) \/ AdvanceStep(t) \/ NotifFaultStep(t))
              \/ \E t2 \in Notif \ {t} :
                    /\ npc[t] \in {"finish", "next"}
                    /\ lock[nreq[t]] = t2
                    /\ ENABLED (NotifStep(t2) \/ AdvanceStep(t2)
                                \/ NotifFaultStep(t2))

\* An exception of send_command, raised after a sibling was sent, is on its
\* way up to notify; another type and an unknown tag have been delivered.
C14_Witness ==
    \E t \in Notif :
        /\ npc[t] = "BaseException"
        /\ \E c \in threw : c[3] = 2 /\ sends[<<c[1], c[2], 1>>] = 1

\* C15: a send that raises while the constructor dispatches the first stage
\* is logged; submit_request still returns the id of the new batch, which is
\* registered with running empty and its later stages waiting.
C15_CtorThrowDegrades ==
    \A a \in Api :
        (/\ apc[a] = "done" /\ aret[a][1] \in {"uuid", "raised"}
         /\ \E c \in threw : c[1] = created /\ c[2] = 1) =>
            LET o == created
            IN  /\ aret[a] = <<"uuid", uuid[o]>>
                /\ o \in Registered
                /\ running[o] = << >>
                /\ waiting[o] = [s \in 1..(Len(shape[o]) - 1) |->
                                    [i \in 1..shape[o][s + 1] |-> <<o, s + 1, i>>]]

\* C16: when the send of one command of a stage raises, the siblings that
\* were sent are tracked (in running until their completion is applied) and
\* the batch still reaches a terminal state once every completion has come.
C16_ThrowDropsOneCommand ==
    AllIdle =>
        \A o \in Registered : \A c \in threw :
            c[1] = o =>
                /\ \A c2 \in Commands(o, shape[o]) :
                      (c2[2] = c[2] /\ sends[c2] > 0) =>
                          Occ(running[o], c2) + Occ(finished[o], c2)
                              + Occ(failed[o], c2) = 1
                /\ inflight = {} => (running[o] = << >> /\ waiting[o] = << >>)

\* C17: in the router, finish(), is_ready() and next() are one critical
\* section on the batch: no two notification threads are past the entry of
\* finish() and before the end of next() on the same batch.
C17_OneCriticalSection ==
    \A t1 \in Notif : \A t2 \in Notif \ {t1} :
        LET InSection(t) ==
                npc[t] \in {"finish_pop", "finish_append", "is_ready", "next",
                            "next_run", "next_extend"}
        IN  (nreq[t1] # NoObj /\ nreq[t1] = nreq[t2]) =>
                ~(InSection(t1) /\ InSection(t2))

\* C18: next() pops and dispatches the head of waiting only when running is
\* empty and waiting is not; called in any other state it changes none of
\* the lists and sends nothing.
C18_NextGuard ==
    [][\A t \in Notif :
        LET o == nreq[t]
        IN  (npc[t] = "next" /\ npc'[t] # "next") =>
                IF running[o] = << >> /\ waiting[o] # << >>
                THEN /\ npc'[t] \in {"next_run", "next_extend"}
                     /\ ncmds'[t] = waiting[o][1]
                     /\ Len(waiting'[o]) = Len(waiting[o]) - 1
                ELSE /\ npc'[t] = "idle"
                     /\ running' = running /\ waiting' = waiting
                     /\ finished' = finished /\ failed' = failed
                     /\ sends' = sends]_vars

\* C19: registry mutations exclude each other, so the registry is what some
\* sequential order of the Submit, Cancel and Sweep calls leaves: a batch
\* that was appended is registered until it is cancelled or, once finished,
\* swept, and a cancelled batch is not registered.
C19_RegistryAtomic ==
    \A o \in 1..created :
        /\ ~Constructing(o) =>
              (o \in Registered \/ o \in cancelled
                  \/ (running[o] = << >> /\ waiting[o] = << >>))
        /\ o \in cancelled => o \notin Registered

\* C20: once Cancel(id) has returned True, no invocation of that batch moves
\* between running, finished and failed and none of its commands is sent.
C20_CancelStops ==
    [][\A o \in cancelled :
          /\ running'[o] = running[o]
          /\ finished'[o] = finished[o]
          /\ failed'[o] = failed[o]
          /\ \A c \in Commands(o, shape[o]) : sends'[c] = sends[c]]_vars

\* C21: the completion of a first-stage command of a batch that is being
\* constructed or is registered, and was not cancelled, is never dropped by
\* the router as an unknown tag, however soon after the send it comes.
C21_NoCompletionLost ==
    [][\A t \in Notif :
        LET c == nfor[t]
        IN  ~(/\ npc[t] = "filter" /\ npc'[t] = "idle"
              /\ c # NoCmd /\ c[2] = 1
              /\ c[1] \notin cancelled
              /\ (c[1] \in Registered \/ Constructing(c[1])))]_vars

\* s is an initial part of t.
IsPrefix(s, t) ==
    /\ Len(s) <= Len(t)
    /\ \A i \in 1..Len(s) : t[i] = s[i]

\* C22: an outcome is set at most once.  finished and failed only grow, an
\* invocation in one of them is in neither the other nor running, and none
\* is recorded twice, whatever notifications (duplicate and stale ones
\* included) are delivered.
C22_OutcomeOnce ==
    [][\A o \in Obj :
          /\ IsPrefix(finished[o], finished'[o])
          /\ IsPrefix(failed[o], failed'[o])
          /\ \A c \in Commands(o, shape'[o]) :
                /\ Occ(finished'[o], c) + Occ(failed'[o], c) <= 1
                /\ Occ(finished'[o], c) + Occ(failed'[o], c) = 1 =>
                      Occ(running'[o], c) = 0]_vars

\* A notification carrying the tag of an invocation that is already in
\* finished is at the router, which has one registered batch with a failed
\* and a finished invocation.
C22_Witness ==
    \E t \in Notif : \E o \in Registered :
        /\ npc[t] = "filter" /\ nfor[t] = NoCmd
        /\ \E i \in 1..Len(finished[o]) : finished[o][i].tag = ntag[t]
        /\ failed[o] # << >>

\* C23: no command is sent twice, no stage is sent before an earlier one,
\* and when a registered batch is finished every one of its commands has
\* been sent exactly once.
C23_NoRetry ==
    \A o \in 1..created :
        /\ \A c \in Commands(o, shape[o]) : sends[c] <= 1
        /\ \A c \in Commands(o, shape[o]) : \A d \in Commands(o, shape[o]) :
              (sends[d] > 0 /\ StageOf(c) < StageOf(d)) => sends[c] > 0
        /\ (o \in Registered /\ running[o] = << >> /\ waiting[o] = << >>) =>
              \A c \in Commands(o, shape[o]) : sends[c] = 1

====
